---- MODULE Spec2Model ----
(***************************************************************************)
(* wgpu-hal DX12 backend: the swapchain lifecycle of Surface / Queue       *)
(* (src/wgpu-hal/src/dx12/mod.rs) together with the present modes the      *)
(* adapter reports (src/wgpu-hal/src/dx12/adapter.rs), the root-binding    *)
(* state of a recording session (PassState, mod.rs), the root signature    *)
(* layout of a pipeline layout, and the native view descriptions built by  *)
(* ViewDescriptor (src/wgpu-hal/src/dx12/view.rs).                         *)
(*                                                                         *)
(* Each component has its own specification: Spec (swapchain), LayoutSpec  *)
(* (pipeline-layout construction), PassSpec (root bindings) and ViewSpec   *)
(* (view descriptions).  A specification leaves the variables of the other *)
(* components at their initial values.                                     *)
(*                                                                         *)
(* Rust's Option<T> is modelled as a sequence of length 0 (None) or 1      *)
(* (Some).  A usize is modelled by an integer r that stands for the value  *)
(* r mod 2^USIZE_BITS: r >= 0 is the value r itself, r < 0 is the wrapped  *)
(* value 2^USIZE_BITS + r.  Vec indices are 0-based in the code and        *)
(* 1-based here, so resources[i + 1] is the code's resources[i].           *)
(***************************************************************************)
EXTENDS Integers, Sequences, FiniteSets, TLC

\* ------------------------------------------------------------------ bounds
MaxImages == 3      \* largest swap_chain_size handed to configure
MaxAcquired == 4    \* acquire_texture is not driven past this acquired_count
MaxWrapped == 1     \* present/discard are not driven further below zero

\* ------------------------------------------------------- program constants
MinImages == 2      \* swap_chain_sizes: 2..=16
USIZE_BITS == 64    \* acquired_count: usize on the 64-bit Windows targets

PresentModes == {"Immediate", "Fifo", "Mailbox"}

\* Threading::WaitForSingleObject statuses; "WAIT_OTHER" is any other value.
WaitStatuses ==
    {"WAIT_OBJECT_0", "WAIT_ABANDONED", "WAIT_TIMEOUT", "WAIT_FAILED", "WAIT_OTHER"}

Timeouts == {"0", "INFINITE"}

NullResource == 0   \* native::Resource::null()

VARIABLES
    swap_chain,       \* Surface::swap_chain : Option<SwapChain>
    dxgi,             \* the native IDXGISwapChain3 behind SwapChain::raw
    env,              \* what the DXGI factory of this machine supports
    overflow_checks,  \* build profile: arithmetic overflow panics (TRUE) or wraps
    calls,            \* native calls issued by the most recent handler, in order
    result,           \* what the most recent handler returned
    phase,            \* history of acquire/present since the last configure
    held,             \* history: indices of the images handed out and not given back
    double_handout,   \* history: an image was handed out while it was still held
    run,              \* history: the textures of the successful acquires since the
                      \* last configure, unconfigure, present or discard_texture
    device,           \* create_pipeline_layout: its arguments and what it returned
    pass,             \* CommandEncoder::pass : PassState (layout, root elements, dirty mask)
    list,             \* the native command list: root signature and root bindings
    rec,              \* the most recent recording call and the PassState it found
    view,             \* a ViewDescriptor, the view kind asked of it and the outcome
    hresult,          \* a native result code and what the HResult conversions made of it
    queue             \* Queue: temp_lists, and the native calls and result of a submit

swapchain_vars ==
    <<swap_chain, dxgi, env, overflow_checks, calls, result, phase, held,
      double_handout, run>>

recording_vars == <<pass, list, rec>>

queue_vars == <<hresult, queue>>

vars == <<swapchain_vars, device, recording_vars, view, queue_vars>>

\* ----------------------------------------------------------------- helpers
Call(name, args) == [call |-> name, args |-> args]

\* What a handler returned.  hr: the wait status it saw; waited: what
\* SwapChain::wait made of it; before / owned: acquired_count and
\* resources.len() as the handler found them (before is None when it read none).
NoRet(op) ==
    [op |-> op, ret |-> "()", index |-> -1, resource |-> NullResource,
     hr |-> "", waited |-> "", before |-> <<>>, owned |-> 0]

Owned == IF swap_chain = <<>> THEN 0 ELSE Len(swap_chain[1].resources)

RECURSIVE PowMod(_, _, _)
PowMod(b, e, m) == IF e = 0 THEN 1 % m ELSE (b * PowMod(b, e - 1, m)) % m

\* value % m for the usize that r stands for
UsizeRem(r, m) ==
    IF r >= 0 THEN r % m ELSE (PowMod(2, USIZE_BITS, m) + r) % m

\* usize a + b does not fit: only a wrapped b (b < 0) is near the top
AddOverflows(a, b) == b < 0 /\ a + b >= 0

\* usize a - 1 does not fit
SubOverflows(a) == a = 0

\* the image handle the native swapchain gives for GetBuffer(i), i 0-based
NativeBuffer(i) == i + 1

\* ------------------------------------------------------------------- wait
\* mutant: an unknown wait status is taken for a timeout
SwapChain_wait_UnknownIsTimeout(hr) ==
    IF hr = "WAIT_ABANDONED" \/ hr = "WAIT_FAILED" THEN "Err(Lost)"
    ELSE IF hr = "WAIT_OBJECT_0" THEN "Ok(true)"
    ELSE "Ok(false)"

\* SwapChain::wait: the status of WaitForSingleObject to Result<bool, SurfaceError>
SwapChain_wait(hr) ==
    IF hr = "WAIT_ABANDONED" \/ hr = "WAIT_FAILED" THEN "Err(Lost)"
    ELSE IF hr = "WAIT_OBJECT_0" THEN "Ok(true)"
    ELSE IF hr = "WAIT_TIMEOUT" THEN "Ok(false)"
    ELSE "Err(Lost)"

\* SwapChain::release_resources: destroy every owned resource, hand back raw
SwapChain_release_resources(sc) ==
    [i \in 1..Len(sc.resources) |-> Call("Resource::destroy", <<sc.resources[i]>>)]

\* ------------------------------------------------------------ capabilities
\* Adapter::surface_capabilities: present_modes
SurfaceCapabilities_present_modes(e) ==
    <<"Fifo">> \o (IF e.factory5 /\ e.check_ok THEN <<"Immediate">> ELSE <<>>)

\* DXGI_FEATURE_PRESENT_ALLOW_TEARING as CheckFeatureSupport reports it
TearingSupported(e) == e.factory5 /\ e.check_ok /\ e.allow_tearing

\* --------------------------------------------------------------- configure
\* flags handed to CreateSwapChainForHwnd / ResizeBuffers
ConfigureFlags(present_mode) ==
    {"FRAME_LATENCY_WAITABLE_OBJECT"}
        \cup (IF present_mode = "Immediate" THEN {"ALLOW_TEARING"} ELSE {})

\* the resources vector configure stores: swap_chain_size null handles; the loop
\* over GetBuffer assigns each fetched handle to its loop variable, not the vector
ConfigureResources(n) == [i \in 1..n |-> NullResource]

\* the calls from MakeWindowAssociation to the last GetBuffer
ConfigureTail(n) ==
    <<Call("MakeWindowAssociation", <<>>),
      Call("SetMaximumFrameLatency", <<n>>),
      Call("GetFrameLatencyWaitableObject", <<>>)>>
        \o [i \in 1..n |-> Call("GetBuffer", <<i - 1>>)]

NewSwapChain(n, present_mode) ==
    [resources |-> ConfigureResources(n),
     acquired_count |-> 0,
     present_mode |-> present_mode]

\* the native swapchain after CreateSwapChainForHwnd / ResizeBuffers and
\* SetMaximumFrameLatency
NewDxgi(n, present_mode) ==
    [buffers |-> n, back |-> 0, latency |-> n, flags |-> ConfigureFlags(present_mode)]

\* mutant: the native resize is issued while the old images are still owned
ReconfigureHead_ResizeFirst(sc, n) ==
    <<Call("wait_idle", <<>>), Call("ResizeBuffers", <<n>>)>>
        \o SwapChain_release_resources(sc)

\* the calls of the Some(sc) arm up to and including ResizeBuffers
ReconfigureHead(sc, n) ==
    <<Call("wait_idle", <<>>)>>
        \o SwapChain_release_resources(sc)
        \o <<Call("ResizeBuffers", <<n>>)>>

\* the calls of the None arm when the swapchain is created and cast
CreateHead(n) ==
    <<Call("CreateSwapChainForHwnd", <<n>>),
      Call("cast", <<>>),
      Call("IDXGISwapChain1::destroy", <<>>)>>

\* mutant: a failed configure puts the swapchain state it took back
ConfigureFailed_Restored(cs, err) ==
    /\ calls' = cs
    /\ swap_chain' = swap_chain
    /\ dxgi' = dxgi
    /\ result' = [NoRet("configure") EXCEPT !.ret = err, !.owned = Owned]
    /\ phase' = phase

ConfigureFailed(cs, err) ==
    /\ calls' = cs
    /\ swap_chain' = <<>>           \* self.swap_chain.take() is not undone
    /\ dxgi' = dxgi
    /\ result' = [NoRet("configure") EXCEPT !.ret = err, !.owned = Owned]
    /\ phase' = "none"

ConfigureDone(cs, n, present_mode) ==
    /\ calls' = cs \o ConfigureTail(n)
    /\ swap_chain' = <<NewSwapChain(n, present_mode)>>
    /\ dxgi' = <<NewDxgi(n, present_mode)>>
    /\ result' = [NoRet("configure") EXCEPT !.ret = "Ok", !.owned = Owned]
    /\ phase' = "idle"

Surface_configure(n, present_mode, native) ==
    /\ IF swap_chain # <<>>
       THEN \* Some(sc): wait_idle, release_resources, ResizeBuffers
            IF native = "ok"
            THEN ConfigureDone(ReconfigureHead(swap_chain[1], n), n, present_mode)
            ELSE ConfigureFailed(ReconfigureHead(swap_chain[1], n),
                                 "Err(Other(window is in use))")
       ELSE \* None: CreateSwapChainForHwnd, cast to IDXGISwapChain3
            IF native = "failed"
            THEN ConfigureFailed(<<Call("CreateSwapChainForHwnd", <<n>>)>>,
                                 "Err(Other(swap chain creation))")
            ELSE IF native = "cast_failed"
            THEN ConfigureFailed(<<Call("CreateSwapChainForHwnd", <<n>>),
                                   Call("cast", <<>>)>>,
                                 "Err(Other(swap chain cast to 3))")
            ELSE ConfigureDone(CreateHead(n), n, present_mode)
    /\ held' = {}
    /\ double_handout' = FALSE
    /\ run' = <<>>
    /\ UNCHANGED <<env, overflow_checks, device, recording_vars, view, queue_vars>>

\* how the native calls of configure end; only swapchain creation has a cast
NativeOutcomes == IF swap_chain = <<>> THEN {"ok", "failed", "cast_failed"}
                  ELSE {"ok", "failed"}

configure ==
    \E n \in MinImages..MaxImages, m \in PresentModes, native \in NativeOutcomes :
        Surface_configure(n, m, native)

\* ------------------------------------------------------------- unconfigure
\* mutant: the resources are released before the device is idle
UnconfigureCalls_ReleaseFirst(sc) ==
    <<Call("WaitForSingleObject", <<>>)>>
        \o SwapChain_release_resources(sc)
        \o <<Call("wait_idle", <<>>), Call("IDXGISwapChain3::destroy", <<>>)>>

\* the calls of unconfigure on Some(sc)
UnconfigureCalls(sc) ==
    <<Call("WaitForSingleObject", <<>>), Call("wait_idle", <<>>)>>
        \o SwapChain_release_resources(sc)
        \o <<Call("IDXGISwapChain3::destroy", <<>>)>>

Surface_unconfigure(hr) ==
    /\ hr # "WAIT_TIMEOUT"          \* the wait is INFINITE
    /\ IF swap_chain # <<>>
       THEN /\ calls' = UnconfigureCalls(swap_chain[1])
            /\ swap_chain' = <<>>
            /\ dxgi' = <<>>
            /\ result' = [NoRet("unconfigure") EXCEPT
                              !.hr = hr, !.waited = SwapChain_wait(hr), !.owned = Owned]
            /\ phase' = "none"
            /\ held' = {}
            /\ double_handout' = FALSE
            /\ run' = <<>>
       ELSE /\ calls' = <<>>
            /\ result' = NoRet("unconfigure")
            /\ UNCHANGED <<swap_chain, dxgi, phase, held, double_handout, run>>
    /\ UNCHANGED <<env, overflow_checks, device, recording_vars, view, queue_vars>>

unconfigure == \E hr \in WaitStatuses : Surface_unconfigure(hr)

\* --------------------------------------------------------- acquire_texture
\* a handler that panicked: nothing it had not yet stored is changed
Panicked(op, hr, cs) ==
    /\ calls' = cs
    /\ result' = [NoRet(op) EXCEPT
                      !.ret = "panic", !.hr = hr,
                      !.waited = IF hr = "" THEN "" ELSE SwapChain_wait(hr),
                      !.before = IF swap_chain = <<>> THEN <<>>
                                 ELSE <<swap_chain[1].acquired_count>>,
                      !.owned = Owned]
    /\ run' = IF op = "acquire_texture" THEN run ELSE <<>>
    /\ UNCHANGED <<swap_chain, dxgi, phase, held, double_handout>>

\* the texture a successful acquire_texture returns: the resource at index, as
\* found with acquired_count = sc.acquired_count
Acquired(index, sc) ==
    [index |-> index, resource |-> sc.resources[index + 1],
     before |-> sc.acquired_count]

\* index = (base_index + sc.acquired_count) % sc.resources.len()
AcquireIndex(base_index, acquired_count, len) ==
    UsizeRem(base_index + acquired_count, len)

\* sc.wait(timeout_ms)?; only an Err leaves acquire_texture, the bool is dropped
AcquireProceeds(waited) == waited = "Ok(true)" \/ waited = "Ok(false)"

\* sc.acquired_count += 1
CountAfterAcquire(acquired_count) == acquired_count + 1

\* mutant: present and discard_texture forget the decrement
CountAfterRelease_Forgotten(acquired_count) == acquired_count

\* sc.acquired_count -= 1
CountAfterRelease(acquired_count) == acquired_count - 1

PhaseAfterAcquire(p) == IF p = "idle" THEN "acquired" ELSE "broken"

Surface_acquire_texture(timeout_ms, hr) ==
    /\ timeout_ms = "INFINITE" => hr # "WAIT_TIMEOUT"
    /\ UNCHANGED <<env, overflow_checks, device, recording_vars, view, queue_vars>>
    /\ IF swap_chain = <<>>
       THEN Panicked("acquire_texture", "", <<>>)     \* unwrap() of None
       ELSE LET sc == swap_chain[1]
                waited == SwapChain_wait(hr)
                base_index == dxgi[1].back
                index == AcquireIndex(base_index, sc.acquired_count, Len(sc.resources))
                cs == <<Call("WaitForSingleObject", <<>>)>>
                ret == [NoRet("acquire_texture") EXCEPT
                            !.hr = hr, !.waited = waited,
                            !.before = <<sc.acquired_count>>, !.owned = Owned]
            IN  /\ sc.acquired_count < MaxAcquired
                /\ IF ~AcquireProceeds(waited)
                   THEN /\ calls' = cs
                        /\ result' = [ret EXCEPT !.ret = waited]
                        /\ UNCHANGED <<swap_chain, dxgi, phase, held, double_handout,
                                       run>>
                   ELSE IF overflow_checks
                            /\ (\/ AddOverflows(base_index, sc.acquired_count)
                                \/ AddOverflows(1, sc.acquired_count))
                   THEN Panicked("acquire_texture", hr,
                                 cs \o <<Call("GetCurrentBackBufferIndex", <<>>)>>)
                   ELSE /\ calls' = cs \o <<Call("GetCurrentBackBufferIndex", <<>>)>>
                        /\ swap_chain' =
                               <<[sc EXCEPT !.acquired_count =
                                                CountAfterAcquire(sc.acquired_count)]>>
                        /\ result' = [ret EXCEPT
                                          !.ret = "Ok(Some)", !.index = index,
                                          !.resource = sc.resources[index + 1]]
                        /\ phase' = PhaseAfterAcquire(phase)
                        /\ held' = held \cup {index}
                        /\ double_handout' = (double_handout \/ index \in held)
                        /\ run' = Append(run, Acquired(index, sc))
                        /\ dxgi' = dxgi

acquire_texture ==
    \E t \in Timeouts, hr \in WaitStatuses : Surface_acquire_texture(t, hr)

\* --------------------------------------------------------- discard_texture
\* the texture the caller gives back: one it holds, when it holds any
GivenBack == IF held = {} THEN {-1} ELSE held

Surface_discard_texture(texture) ==
    /\ UNCHANGED <<env, overflow_checks, device, recording_vars, view, queue_vars>>
    /\ IF swap_chain = <<>>
       THEN Panicked("discard_texture", "", <<>>)     \* unwrap() of None
       ELSE LET sc == swap_chain[1]
            IN  /\ sc.acquired_count > 0 - MaxWrapped
                /\ IF overflow_checks /\ SubOverflows(sc.acquired_count)
                   THEN Panicked("discard_texture", "", <<>>)
                   ELSE /\ calls' = <<>>
                        /\ swap_chain' =
                               <<[sc EXCEPT !.acquired_count =
                                                CountAfterRelease(sc.acquired_count)]>>
                        /\ result' = [NoRet("discard_texture") EXCEPT
                                          !.before = <<sc.acquired_count>>,
                                          !.owned = Owned]
                        /\ phase' = "broken"
                        /\ held' = held \ {texture}
                        /\ run' = <<>>
                        /\ UNCHANGED <<dxgi, double_handout>>

discard_texture == \E texture \in GivenBack : Surface_discard_texture(texture)

\* ----------------------------------------------------------------- present
\* (interval, flags) of IDXGISwapChain3::Present for a present mode
PresentArgs(present_mode) ==
    IF present_mode = "Immediate" THEN <<0, {"DXGI_PRESENT_ALLOW_TEARING"}>>
    ELSE IF present_mode = "Fifo" THEN <<1, {}>>
    ELSE <<1, {}>>

PhaseAfterPresent(p) == IF p = "acquired" THEN "idle" ELSE "broken"

\* the native swapchain after a Present it accepted: the next back buffer
DxgiPresented(d) == [d EXCEPT !.back = (d.back + 1) % d.buffers]

Queue_present(texture, accepted) ==
    /\ UNCHANGED <<env, overflow_checks, device, recording_vars, view, queue_vars>>
    /\ IF swap_chain = <<>>
       THEN Panicked("present", "", <<>>)             \* unwrap() of None
       ELSE LET sc == swap_chain[1]
            IN  /\ sc.acquired_count > 0 - MaxWrapped
                /\ IF overflow_checks /\ SubOverflows(sc.acquired_count)
                   THEN Panicked("present", "", <<>>)
                   ELSE /\ calls' = <<Call("Present", PresentArgs(sc.present_mode))>>
                        /\ swap_chain' =
                               <<[sc EXCEPT !.acquired_count =
                                                CountAfterRelease(sc.acquired_count)]>>
                        /\ result' = [NoRet("present") EXCEPT
                                          !.ret = "Ok",
                                          !.before = <<sc.acquired_count>>,
                                          !.owned = Owned]
                        /\ phase' = PhaseAfterPresent(phase)
                        /\ held' = held \ {texture}
                        /\ dxgi' = IF accepted THEN <<DxgiPresented(dxgi[1])>> ELSE dxgi
                        /\ run' = <<>>
                        /\ UNCHANGED double_handout

present ==
    \E texture \in GivenBack, accepted \in BOOLEAN : Queue_present(texture, accepted)

\* ------------------------------------------------- root binding data model
\* mutant: an array of one more root element
MAX_ROOT_ELEMENTS_OneMore == 64 + 1

MAX_ROOT_ELEMENTS == 64     \* const MAX_ROOT_ELEMENTS: usize = 64

\* the indices of PassState::root_elements and the bits of dirty_root_elements
RootSlots == 0..(MAX_ROOT_ELEMENTS - 1)

BufferViewKinds == {"Constant", "ShaderResource", "UnorderedAccess"}

\* enum RootElement
Empty == [tag |-> "Empty"]

SpecialConstantBuffer(base_vertex, base_instance, other) ==
    [tag |-> "SpecialConstantBuffer", base_vertex |-> base_vertex,
     base_instance |-> base_instance, other |-> other]

Table(gpu) == [tag |-> "Table", gpu |-> gpu]

DynamicOffsetBuffer(kind, address) ==
    [tag |-> "DynamicOffsetBuffer", kind |-> kind, address |-> address]

\* bitflags TableTypes, a set of the flags that are set
TableTypes == {"SRV_CBV_UAV", "SAMPLERS"}

NullSignature == 0          \* native::RootSignature::null()

\* struct PipelineLayoutShared
PipelineLayoutShared(signature, total_root_elements, special_constants_root_index) ==
    [signature |-> signature, total_root_elements |-> total_root_elements,
     special_constants_root_index |-> special_constants_root_index]

\* struct BindGroupInfo
BindGroupInfo(base_root_index, tables, dynamic_buffers) ==
    [base_root_index |-> base_root_index, tables |-> tables,
     dynamic_buffers |-> dynamic_buffers]

\* [RootElement::Empty; MAX_ROOT_ELEMENTS].  An array of root elements is
\* kept as the function from its non-Empty slots to their elements; ElementAt
\* reads a slot of the array.
AllEmpty == [i \in {} |-> Empty]

ElementAt(elements, i) == IF i \in DOMAIN elements THEN elements[i] ELSE Empty

\* enum PassKind
PassKinds == {"Render", "Compute", "Transfer"}

\* PassState::new().  The u64 dirty_root_elements is modelled as the set of
\* its set bits; the zeroed vertex_buffers array is left out.
PassState_new ==
    [has_label |-> FALSE,
     resolves |-> <<>>,
     layout |-> PipelineLayoutShared(NullSignature, 0, <<>>),
     root_elements |-> AllEmpty,
     dirty_root_elements |-> {},
     dirty_vertex_buffers |-> 0,
     kind |-> "Transfer"]

\* a command list nothing was bound on; an unbound root parameter reads Empty
ListNew == [signature |-> NullSignature, bindings |-> AllEmpty]

\* no recording call yet.  layout: the signature handed to set_pipeline_layout;
\* from: the signature the session had; group: the index handed to
\* set_bind_group; candidates: the root elements it computed; changed: the
\* slots it stored to; was_dirty: the dirty mask the call found; binds: the
\* native bind calls flush_before_draw issued, in order
RecNew == [op |-> "new", layout |-> NullSignature, from |-> NullSignature,
           group |-> 0, candidates |-> <<>>, changed |-> {}, was_dirty |-> {},
           binds |-> <<>>, ret |-> ""]

DeviceNew == [args |-> <<>>, ret |-> <<>>]

\* no view asked for yet.  request: the TextureViewDescriptor and the texture;
\* desc: the ViewDescriptor to_internal made of them; kind: the view asked of
\* it; ro_aspects: the read-only aspects handed to to_dsv; out: the outcome
ViewNew == [request |-> <<>>, desc |-> <<>>, kind |-> "", ro_aspects |-> {},
            out |-> <<>>]

\* no result code converted yet
HResultNew == [self |-> <<>>, conversion |-> "", ret |-> <<>>]

\* a Queue nothing was submitted on: temp_lists is empty.  args: the arguments
\* of the most recent submit; calls: the native calls that submit made on the
\* command queue, in order; ret: what it returned
Queue_new == [temp_lists |-> <<>>, args |-> <<>>, calls |-> <<>>, ret |-> <<>>]

\* the values the swapchain variables have before any surface is configured
SwapChainNew ==
    /\ swap_chain = <<>>
    /\ dxgi = <<>>
    /\ calls = <<>>
    /\ result = NoRet("new")
    /\ phase = "none"
    /\ held = {}
    /\ double_handout = FALSE
    /\ run = <<>>

\* ------------------------------------------------------------------- spec
Envs ==
    {e \in [factory5 : BOOLEAN, check_ok : BOOLEAN, allow_tearing : BOOLEAN] :
        (e.check_ok => e.factory5) /\ (e.allow_tearing => e.check_ok)}

Init ==
    /\ swap_chain = <<>>
    /\ dxgi = <<>>
    /\ env \in Envs
    /\ overflow_checks \in BOOLEAN
    /\ calls = <<>>
    /\ result = NoRet("new")
    /\ phase = "none"
    /\ held = {}
    /\ double_handout = FALSE
    /\ run = <<>>
    /\ device = DeviceNew
    /\ pass = PassState_new
    /\ list = ListNew
    /\ rec = RecNew
    /\ view = ViewNew
    /\ hresult = HResultNew
    /\ queue = Queue_new

Next ==
    \/ configure
    \/ unconfigure
    \/ acquire_texture
    \/ discard_texture
    \/ present

Spec == Init /\ [][Next]_vars

\* ================================================ pipeline-layout construction
\* The root signature layout of Device::create_pipeline_layout: the walk over
\* the bind-group layouts that fills PipelineLayoutShared and BindGroupInfo.
MaxGroups == 3        \* most bind-group layouts handed to one construction
ManyBuffers == 31     \* dynamic-offset buffers of the larger bind-group layouts

\* the binding entries of a bind-group layout, by what decides their root slot
DynamicEntries == {"uniform_dynamic", "storage_ro_dynamic", "storage_dynamic"}

ViewEntries == {"buffer", "texture"}

SamplerEntries == {"sampler"}

Repeat(e, n) == [i \in 1..n |-> e]

\* the bind-group layouts constructions are driven with
SampleGroups ==
    { <<>>,
      <<"uniform_dynamic", "texture">>,
      <<"sampler">>,
      <<"texture", "storage_dynamic", "sampler", "storage_ro_dynamic", "buffer">>,
      Repeat("uniform_dynamic", ManyBuffers),
      Repeat("storage_dynamic", ManyBuffers + 1) }

\* the kind a dynamic-offset buffer is bound as
DynamicBufferKind(entry) ==
    CASE entry = "uniform_dynamic" -> "Constant"
      [] entry = "storage_ro_dynamic" -> "ShaderResource"
      [] entry = "storage_dynamic" -> "UnorderedAccess"

IsDynamicEntry(entry) == entry \in DynamicEntries

\* one descriptor table over the views and fixed-offset buffers, one over the samplers
GroupTables(entries) ==
    (IF \E i \in 1..Len(entries) : entries[i] \in ViewEntries
     THEN {"SRV_CBV_UAV"} ELSE {})
    \cup
    (IF \E i \in 1..Len(entries) : entries[i] \in SamplerEntries
     THEN {"SAMPLERS"} ELSE {})

\* mutant: the dynamic-offset buffers are recorded but get no root slot
GroupDynamicBuffers_NoSlots(entries) == <<>>

\* the kinds of the dynamic-offset buffers, in traversal order
GroupDynamicBuffers(entries) ==
    LET dyn == SelectSeq(entries, IsDynamicEntry)
    IN  [i \in 1..Len(dyn) |-> DynamicBufferKind(dyn[i])]

RECURSIVE WalkGroups(_, _, _)
\* walk the bind-group layouts in slot order; `next` is the next free root index
WalkGroups(groups, next, infos) ==
    IF groups = <<>>
    THEN [infos |-> infos, next |-> next]
    ELSE LET tables == GroupTables(Head(groups))
             dynamic_buffers == GroupDynamicBuffers(Head(groups))
             info == BindGroupInfo(next, tables, dynamic_buffers)
         IN  WalkGroups(Tail(groups),
                        next + Cardinality(tables) + Len(dynamic_buffers),
                        Append(infos, info))

\* the leading SpecialConstants slot, reserved when the emulation is enabled
SpecialConstantsSlots(emulate) == IF emulate THEN 1 ELSE 0

\* the capacity of the root-element array and of the dirty mask
FitsRootSignature(slots) == slots <= MAX_ROOT_ELEMENTS

Device_create_pipeline_layout(signature, emulate, groups) ==
    LET walk == WalkGroups(groups, SpecialConstantsSlots(emulate), <<>>)
    IN  IF ~FitsRootSignature(walk.next)
        THEN [ret |-> "Err(capacity)", layout |-> <<>>]
        ELSE [ret |-> "Ok",
              layout |-> <<[shared |-> PipelineLayoutShared(
                                           signature, walk.next,
                                           IF emulate THEN <<0>> ELSE <<>>),
                            bind_group_infos |-> walk.infos]>>]

GroupLists == UNION {[1..n -> SampleGroups] : n \in 0..MaxGroups}

create_pipeline_layout ==
    /\ device.ret = <<>>
    /\ device' = [device EXCEPT
                      !.ret = <<Device_create_pipeline_layout(
                                    1, device.args[1].emulate, device.args[1].groups)>>]
    /\ UNCHANGED <<swapchain_vars, recording_vars, view, queue_vars>>

LayoutInit ==
    /\ SwapChainNew
    /\ env = [factory5 |-> FALSE, check_ok |-> FALSE, allow_tearing |-> FALSE]
    /\ overflow_checks = FALSE
    /\ device \in {[args |-> <<[emulate |-> e, groups |-> gs]>>, ret |-> <<>>] :
                       e \in BOOLEAN, gs \in GroupLists}
    /\ pass = PassState_new
    /\ list = ListNew
    /\ rec = RecNew
    /\ view = ViewNew
    /\ hresult = HResultNew
    /\ queue = Queue_new

LayoutNext == create_pipeline_layout

LayoutSpec == LayoutInit /\ [][LayoutNext]_vars

\* ======================================================= root-binding state
\* The recording session's PassState and the command list behind it, driven
\* by set_pipeline_layout, set_bind_group, flush_before_draw and the reset of
\* PassState at the start of a pass.
Handles == {1, 2}           \* GPU descriptor-table handles of the bind groups
Addresses == {16}           \* GPU addresses of the dynamic-offset buffers
Offsets == {0, 4}           \* dynamic offsets handed to set_bind_group

\* the pipeline layouts of the session: 1 and 2 have the same shape and are
\* two objects; 3 has the leading SpecialConstants slot
Layouts ==
    { Device_create_pipeline_layout(
          1, FALSE, << <<"uniform_dynamic", "texture">>, <<"sampler">> >>).layout[1],
      Device_create_pipeline_layout(
          2, FALSE, << <<"uniform_dynamic", "texture">>, <<"sampler">> >>).layout[1],
      Device_create_pipeline_layout(3, TRUE, << <<"sampler">> >>).layout[1] }

\* the PipelineLayout a signature belongs to
LayoutOf(signature) == CHOOSE l \in Layouts : l.shared.signature = signature

\* struct BindGroup, as instantiated for a BindGroupInfo
BindGroupsFor(info) ==
    [handle_views : IF "SRV_CBV_UAV" \in info.tables
                    THEN {<<h>> : h \in Handles} ELSE {<<>>},
     handle_samplers : IF "SAMPLERS" \in info.tables
                       THEN {<<h>> : h \in Handles} ELSE {<<>>},
     dynamic_buffers : [1..Len(info.dynamic_buffers) -> Addresses]]

\* the slots [0, total_root_elements) of a layout
LayoutSlots(shared) == 0..(shared.total_root_elements - 1)

\* mutant: only the slots that were bound before are marked
DirtyOnLayoutChange_OnlyBound(shared, dirty) ==
    dirty \cup {i \in LayoutSlots(shared) : ElementAt(list.bindings, i) # Empty}

\* the dirty mask after the layout changed: every slot of the new layout is set
DirtyOnLayoutChange(shared, dirty) == dirty \cup LayoutSlots(shared)

set_pipeline_layout(new_layout) ==
    LET shared == new_layout.shared
    IN  /\ rec' = [RecNew EXCEPT
                       !.op = "set_pipeline_layout", !.layout = shared.signature,
                       !.from = pass.layout.signature,
                       !.was_dirty = pass.dirty_root_elements]
        /\ IF shared.signature # pass.layout.signature
           THEN /\ pass' = [pass EXCEPT
                                !.layout = shared,
                                !.dirty_root_elements =
                                    DirtyOnLayoutChange(shared, pass.dirty_root_elements)]
                \* the root signature is set, which drops every root binding
                /\ list' = [ListNew EXCEPT !.signature = shared.signature]
           ELSE UNCHANGED <<pass, list>>
        /\ UNCHANGED <<swapchain_vars, device, view, queue_vars>>

\* the candidate root elements of a bind group: the view table, the sampler
\* table, then one element per dynamic-offset buffer in the recorded kind order
Candidates(info, bind_group, dynamic_offsets) ==
    (IF "SRV_CBV_UAV" \in info.tables
     THEN <<Table(bind_group.handle_views[1])>> ELSE <<>>)
    \o (IF "SAMPLERS" \in info.tables
        THEN <<Table(bind_group.handle_samplers[1])>> ELSE <<>>)
    \o [i \in 1..Len(info.dynamic_buffers) |->
            DynamicOffsetBuffer(info.dynamic_buffers[i],
                                bind_group.dynamic_buffers[i] + dynamic_offsets[i])]

\* the slots a candidate list occupies from base_root_index on
OwnedSlots(info, candidates) ==
    info.base_root_index..(info.base_root_index + Len(candidates) - 1)

\* mutant: every slot of the group is marked, whether or not its value changed
ChangedSlots_All(info, candidates, root_elements) == OwnedSlots(info, candidates)

\* the slots whose candidate differs from the stored root element
ChangedSlots(info, candidates, root_elements) ==
    {i \in OwnedSlots(info, candidates) :
        candidates[i - info.base_root_index + 1] # ElementAt(root_elements, i)}

set_bind_group(group_index, bind_group, dynamic_offsets) ==
    LET info == LayoutOf(pass.layout.signature).bind_group_infos[group_index + 1]
        candidates == Candidates(info, bind_group, dynamic_offsets)
        changed == ChangedSlots(info, candidates, pass.root_elements)
    IN  /\ pass' = [pass EXCEPT
                        !.root_elements =
                            [i \in DOMAIN pass.root_elements \cup changed |->
                                IF i \in changed
                                THEN candidates[i - info.base_root_index + 1]
                                ELSE pass.root_elements[i]],
                        !.dirty_root_elements = pass.dirty_root_elements \cup changed]
        /\ rec' = [RecNew EXCEPT
                       !.op = "set_bind_group", !.layout = pass.layout.signature,
                       !.from = pass.layout.signature, !.group = group_index,
                       !.candidates = candidates, !.changed = changed,
                       !.was_dirty = pass.dirty_root_elements]
        /\ UNCHANGED <<list, swapchain_vars, device, view, queue_vars>>

\* the native bind call of a root element; Empty has none
BindCall(i, element) ==
    CASE element.tag = "Table" -> <<Call("SetRootDescriptorTable", <<i, element.gpu>>)>>
      [] element.tag = "DynamicOffsetBuffer" ->
             <<Call("SetRootView", <<i, element.kind, element.address>>)>>
      [] element.tag = "SpecialConstantBuffer" ->
             <<Call("SetRoot32BitConstants", <<i>>)>>
      [] OTHER -> <<>>

RECURSIVE BindCalls(_, _)
\* the bind calls of the dirty slots, in slot order
BindCalls(dirty, root_elements) ==
    IF dirty = {} THEN <<>>
    ELSE LET i == CHOOSE j \in dirty : \A k \in dirty : j <= k
         IN  BindCall(i, ElementAt(root_elements, i))
                 \o BindCalls(dirty \ {i}, root_elements)

\* mutant: the slots above the first dirty one are left for the next flush
FlushedSlots_FirstOnly(dirty) ==
    {i \in dirty : \A k \in dirty : i <= k}

\* the slots a flush binds: every set bit of the mask
FlushedSlots(dirty) == dirty

flush_before_draw ==
    LET flushed == FlushedSlots(pass.dirty_root_elements)
        bound == flushed \cap DOMAIN pass.root_elements    \* Empty has no bind call
    IN  /\ list' = [list EXCEPT
                        !.bindings = [i \in DOMAIN list.bindings \cup bound |->
                                         IF i \in bound THEN pass.root_elements[i]
                                         ELSE list.bindings[i]]]
        /\ pass' = [pass EXCEPT !.dirty_root_elements = {}]
        /\ rec' = [RecNew EXCEPT
                       !.op = "flush_before_draw", !.layout = pass.layout.signature,
                       !.from = pass.layout.signature,
                       !.was_dirty = pass.dirty_root_elements,
                       !.binds = BindCalls(flushed, pass.root_elements)]
        /\ UNCHANGED <<swapchain_vars, device, view, queue_vars>>

\* mutant: the reset keeps the layout the session had
PassState_clear_KeepsLayout ==
    /\ pass' = [PassState_new EXCEPT !.layout = pass.layout]
    /\ rec' = [RecNew EXCEPT
                   !.op = "clear", !.from = pass.layout.signature,
                   !.was_dirty = pass.dirty_root_elements]
    /\ UNCHANGED <<list, swapchain_vars, device, view, queue_vars>>

\* mutant: the reset empties the root elements and their mask and nothing else
PassState_clear_RootOnly ==
    /\ pass' = [pass EXCEPT !.root_elements = AllEmpty, !.dirty_root_elements = {}]
    /\ rec' = [RecNew EXCEPT
                   !.op = "clear", !.from = pass.layout.signature,
                   !.was_dirty = pass.dirty_root_elements]
    /\ UNCHANGED <<list, swapchain_vars, device, view, queue_vars>>

\* PassState::clear(): *self = Self::new()
PassState_clear ==
    /\ pass' = PassState_new
    /\ rec' = [RecNew EXCEPT
                   !.op = "clear", !.from = pass.layout.signature,
                   !.was_dirty = pass.dirty_root_elements]
    /\ UNCHANGED <<list, swapchain_vars, device, view, queue_vars>>

SetPipelineLayout == \E l \in Layouts : set_pipeline_layout(l)

SetBindGroup ==
    /\ pass.layout.signature # NullSignature
    /\ \E g \in 0..(Len(LayoutOf(pass.layout.signature).bind_group_infos) - 1) :
           LET info == LayoutOf(pass.layout.signature).bind_group_infos[g + 1]
           IN  \E bg \in BindGroupsFor(info),
                  offs \in [1..Len(info.dynamic_buffers) -> Offsets] :
                   set_bind_group(g, bg, offs)

PassInit ==
    /\ SwapChainNew
    /\ env = [factory5 |-> FALSE, check_ok |-> FALSE, allow_tearing |-> FALSE]
    /\ overflow_checks = FALSE
    /\ device = DeviceNew
    /\ pass = PassState_new
    /\ list = ListNew
    /\ rec = RecNew
    /\ view = ViewNew
    /\ hresult = HResultNew
    /\ queue = Queue_new

PassNext ==
    \/ SetPipelineLayout
    \/ SetBindGroup
    \/ flush_before_draw
    \/ PassState_clear

PassSpec == PassInit /\ [][PassNext]_vars

\* ------------------------------------------------- the reset of a PassState
\* PassState::clear() on the PassState a pass may have left behind.
UsedRootElements ==
    { AllEmpty,
      (0 :> Table(1)),
      (0 :> Table(2)) @@ (1 :> DynamicOffsetBuffer("Constant", 16))
          @@ (MAX_ROOT_ELEMENTS - 1 :> SpecialConstantBuffer(0, 0, 0)) }

UsedDirtyMasks == SUBSET {0, 1, MAX_ROOT_ELEMENTS - 1}

UsedDirtyVertexBuffers == {0, 1, 3}

\* the PassStates a pass can leave behind
UsedPassStates ==
    [has_label : BOOLEAN,
     resolves : {<<>>, <<"resolve">>},
     layout : {PassState_new.layout} \cup {l.shared : l \in Layouts},
     root_elements : UsedRootElements,
     dirty_root_elements : UsedDirtyMasks,
     dirty_vertex_buffers : UsedDirtyVertexBuffers,
     kind : PassKinds]

ClearInit ==
    /\ SwapChainNew
    /\ env = [factory5 |-> FALSE, check_ok |-> FALSE, allow_tearing |-> FALSE]
    /\ overflow_checks = FALSE
    /\ device = DeviceNew
    /\ pass \in UsedPassStates
    /\ list = ListNew
    /\ rec = RecNew
    /\ view = ViewNew
    /\ hresult = HResultNew
    /\ queue = Queue_new

ClearNext == PassState_clear

ClearSpec == ClearInit /\ [][ClearNext]_vars

\* ------------------------------------------------- the width of the dirty mask
\* dirty_root_elements: u64 against the MAX_ROOT_ELEMENTS root elements.
U64_BITS == 64          \* std::mem::size_of::<u64>() * 8

\* 1u64 << i as a set of bits; a shift by the width or more wraps the amount
ShiftedBit(i) == {i % U64_BITS}

\* dirty_root_elements |= 1 << slot
mark_dirty(slot) ==
    /\ rec.op = "new"
    /\ pass' = [pass EXCEPT
                    !.dirty_root_elements = pass.dirty_root_elements \cup ShiftedBit(slot)]
    /\ rec' = [RecNew EXCEPT
                   !.op = "mark_dirty", !.from = pass.layout.signature,
                   !.changed = {slot}, !.was_dirty = pass.dirty_root_elements]
    /\ UNCHANGED <<list, swapchain_vars, device, view, queue_vars>>

MarkDirty == \E slot \in RootSlots : mark_dirty(slot)

\* #[test] fn test_dirty_mask(): assert_eq!(MAX_ROOT_ELEMENTS, size_of::<u64>() * 8)
test_dirty_mask ==
    /\ rec.op = "new"
    /\ rec' = [RecNew EXCEPT
                   !.op = "test_dirty_mask", !.from = pass.layout.signature,
                   !.was_dirty = pass.dirty_root_elements,
                   !.ret = IF MAX_ROOT_ELEMENTS = U64_BITS THEN "ok" ELSE "panic"]
    /\ UNCHANGED <<pass, list, swapchain_vars, device, view, queue_vars>>

MaskInit ==
    /\ SwapChainNew
    /\ env = [factory5 |-> FALSE, check_ok |-> FALSE, allow_tearing |-> FALSE]
    /\ overflow_checks = FALSE
    /\ device = DeviceNew
    /\ pass \in {[PassState_new EXCEPT !.dirty_root_elements = d] : d \in UsedDirtyMasks}
    /\ list = ListNew
    /\ rec = RecNew
    /\ view = ViewNew
    /\ hresult = HResultNew
    /\ queue = Queue_new

MaskNext ==
    \/ MarkDirty
    \/ test_dirty_mask

MaskSpec == MaskInit /\ [][MaskNext]_vars

\* ========================================================= view descriptions
\* ViewDescriptor and the native view descriptions it is turned into.  A u32
\* is modelled by an integer r that stands for r mod 2^32: r >= 0 is the value
\* r itself and r < 0 is 2^32 + r, so -1 is !0 = u32::MAX.
U32_MAX == 0 - 1            \* !0

HALF_WORD == 65536          \* 2^16, with 2^32 = HALF_WORD * HALF_WORD

\* u32 division self / d of a representative, for 0 < d < 2^16
U32Div(r, d) ==
    IF r >= 0 THEN r \div d
    ELSE LET high == (HALF_WORD \div d) * HALF_WORD      \* 2^32 = high * d + low
             low == (HALF_WORD % d) * HALF_WORD
         IN  high + (low + r) \div d

TextureViewDimensions == {"D1", "D2", "D2Array", "D3", "Cube", "CubeArray"}

\* crate::FormatAspects bits a depth-stencil view can be read-only in
FormatAspects == {"DEPTH", "STENCIL"}

\* the layer and mip ranges views are asked for; a count is Option<NonZeroU32>
ArrayLayerBases == {0, 1, 6}

ArrayLayerCounts == {<<>>, <<1>>, <<6>>, <<7>>, <<12>>, <<U32_MAX - 1>>, <<U32_MAX>>}

MipLevelCounts == {<<>>, <<1>>}

SampleCounts == {1, 4}

\* mutant: an absent count is resolved to what the texture has left from the base
TextureViewDescriptor_to_internal_Resolved(self, texture) ==
    [dimension |-> self.dimension,
     format |-> <<"map_texture_format", self.format>>,
     format_nodepth |-> <<"map_texture_format_nodepth", self.format>>,
     multisampled |-> texture.sample_count > 1,
     mip_level_base |-> self.range.base_mip_level,
     mip_level_count |-> IF self.range.mip_level_count # <<>>
                         THEN self.range.mip_level_count[1]
                         ELSE texture.mip_level_count - self.range.base_mip_level,
     array_layer_base |-> self.range.base_array_layer,
     array_layer_count |-> IF self.range.array_layer_count # <<>>
                           THEN self.range.array_layer_count[1]
                           ELSE texture.size.depth_or_array_layers
                                    - self.range.base_array_layer]

\* crate::TextureViewDescriptor::to_internal
TextureViewDescriptor_to_internal(self, texture) ==
    [dimension |-> self.dimension,
     format |-> <<"map_texture_format", self.format>>,
     format_nodepth |-> <<"map_texture_format_nodepth", self.format>>,
     multisampled |-> texture.sample_count > 1,
     mip_level_base |-> self.range.base_mip_level,
     mip_level_count |-> IF self.range.mip_level_count # <<>>
                         THEN self.range.mip_level_count[1] ELSE U32_MAX,
     array_layer_base |-> self.range.base_array_layer,
     array_layer_count |-> IF self.range.array_layer_count # <<>>
                           THEN self.range.array_layer_count[1] ELSE U32_MAX]

\* a native view description that was returned, and a panic
Desc(format, view_dimension, anonymous) ==
    [ret |-> "desc", Format |-> format, ViewDimension |-> view_dimension,
     Anonymous |-> anonymous]

Panic(message) == [ret |-> "panic", message |-> message]

\* mutant: the layer count is divided whatever it is
NumCubes_AlwaysDivided(array_layer_count) == U32Div(array_layer_count, 6)

\* NumCubes of a cube-array view
NumCubes(array_layer_count) ==
    IF array_layer_count = U32_MAX THEN U32_MAX ELSE U32Div(array_layer_count, 6)

\* mutant: the base == 0 shortcuts of to_srv are taken for one layer only
SrvPlain2D_OneLayer(self) ==
    self.dimension = "D2" /\ self.array_layer_base = 0 /\ self.array_layer_count = 1

\* mutant: the D2Array arm of to_srv takes the base == 0 shortcuts as well
SrvPlain2D_AlsoArray(self) ==
    self.dimension \in {"D2", "D2Array"} /\ self.array_layer_base = 0

\* the dimensions and base that take the non-array 2D arms of to_srv
SrvPlain2D(self) == self.dimension = "D2" /\ self.array_layer_base = 0

\* ViewDescriptor::to_srv, the match arms in their order
ViewDescriptor_to_srv(self) ==
    LET d == self.dimension
        mips == [MostDetailedMip |-> self.mip_level_base,
                 MipLevels |-> self.mip_level_count]
        slices == [FirstArraySlice |-> self.array_layer_base,
                   ArraySize |-> self.array_layer_count]
        desc(dim, anonymous) == Desc(self.format_nodepth, dim, anonymous)
    IN  IF d = "D1" THEN desc("TEXTURE1D", mips)
        ELSE IF SrvPlain2D(self) /\ self.multisampled
        THEN desc("TEXTURE2DMS", [UnusedField_NothingToDefine |-> 0])
        ELSE IF SrvPlain2D(self)
        THEN desc("TEXTURE2D", [MostDetailedMip |-> self.mip_level_base,
                                MipLevels |-> self.mip_level_count,
                                PlaneSlice |-> 0])
        ELSE IF d \in {"D2", "D2Array"} /\ self.multisampled
        THEN desc("TEXTURE2DMSARRAY", slices)
        ELSE IF d \in {"D2", "D2Array"}
        THEN desc("TEXTURE2DARRAY",
                  [MostDetailedMip |-> self.mip_level_base,
                   MipLevels |-> self.mip_level_count,
                   FirstArraySlice |-> self.array_layer_base,
                   ArraySize |-> self.array_layer_count,
                   PlaneSlice |-> 0])
        ELSE IF d = "D3" THEN desc("TEXTURE3D", mips)
        ELSE IF d = "Cube" /\ self.array_layer_base = 0
        THEN desc("TEXTURECUBE", mips)
        ELSE desc("TEXTURECUBEARRAY",
                  [MostDetailedMip |-> self.mip_level_base,
                   MipLevels |-> self.mip_level_count,
                   First2DArrayFace |-> self.array_layer_base,
                   NumCubes |-> NumCubes(self.array_layer_count)])

\* ViewDescriptor::to_uav
ViewDescriptor_to_uav(self) ==
    LET d == self.dimension
        desc(dim, anonymous) == Desc(self.format_nodepth, dim, anonymous)
    IN  IF d = "D1" THEN desc("TEXTURE1D", [MipSlice |-> self.mip_level_base])
        ELSE IF d = "D2" /\ self.array_layer_base = 0
        THEN desc("TEXTURE2D", [MipSlice |-> self.mip_level_base, PlaneSlice |-> 0])
        ELSE IF d \in {"D2", "D2Array"}
        THEN desc("TEXTURE2DARRAY",
                  [MipSlice |-> self.mip_level_base,
                   FirstArraySlice |-> self.array_layer_base,
                   ArraySize |-> self.array_layer_count,
                   PlaneSlice |-> 0])
        ELSE IF d = "D3"
        THEN desc("TEXTURE3D",
                  [MipSlice |-> self.mip_level_base,
                   FirstWSlice |-> self.array_layer_base,
                   WSize |-> self.array_layer_count])
        ELSE Panic("Unable to view texture as cube UAV")

\* ViewDescriptor::to_rtv
ViewDescriptor_to_rtv(self) ==
    LET d == self.dimension
        desc(dim, anonymous) == Desc(self.format, dim, anonymous)
    IN  IF d = "D1" THEN desc("TEXTURE1D", [MipSlice |-> self.mip_level_base])
        ELSE IF d = "D2" /\ self.multisampled /\ self.array_layer_base = 0
        THEN desc("TEXTURE2DMS", [UnusedField_NothingToDefine |-> 0])
        ELSE IF d = "D2" /\ self.array_layer_base = 0
        THEN desc("TEXTURE2D", [MipSlice |-> self.mip_level_base, PlaneSlice |-> 0])
        ELSE IF d \in {"D2", "D2Array"} /\ self.multisampled
        THEN desc("TEXTURE2DMSARRAY",
                  [FirstArraySlice |-> self.array_layer_base,
                   ArraySize |-> self.array_layer_count])
        ELSE IF d \in {"D2", "D2Array"}
        THEN desc("TEXTURE2DARRAY",
                  [MipSlice |-> self.mip_level_base,
                   FirstArraySlice |-> self.array_layer_base,
                   ArraySize |-> self.array_layer_count,
                   PlaneSlice |-> 0])
        ELSE IF d = "D3"
        THEN desc("TEXTURE3D",
                  [MipSlice |-> self.mip_level_base,
                   FirstWSlice |-> self.array_layer_base,
                   WSize |-> self.array_layer_count])
        ELSE Panic("Unable to view texture as cube RTV")

\* mutant: read-only depth makes the whole view read-only
DsvFlags_DepthImpliesStencil(ro_aspects) ==
    (IF "DEPTH" \in ro_aspects THEN {"READ_ONLY_DEPTH", "READ_ONLY_STENCIL"} ELSE {})
    \cup (IF "STENCIL" \in ro_aspects THEN {"READ_ONLY_STENCIL"} ELSE {})

\* the Flags of a depth-stencil view
DsvFlags(ro_aspects) ==
    (IF "DEPTH" \in ro_aspects THEN {"READ_ONLY_DEPTH"} ELSE {})
    \cup (IF "STENCIL" \in ro_aspects THEN {"READ_ONLY_STENCIL"} ELSE {})

\* ViewDescriptor::to_dsv
ViewDescriptor_to_dsv(self, ro_aspects) ==
    LET d == self.dimension
        desc(dim, anonymous) ==
            [ret |-> "desc", Format |-> self.format, ViewDimension |-> dim,
             Flags |-> DsvFlags(ro_aspects), Anonymous |-> anonymous]
    IN  IF d = "D1" THEN desc("TEXTURE1D", [MipSlice |-> self.mip_level_base])
        ELSE IF d = "D2" /\ self.multisampled /\ self.array_layer_base = 0
        THEN desc("TEXTURE2DMS", [UnusedField_NothingToDefine |-> 0])
        ELSE IF d = "D2" /\ self.array_layer_base = 0
        THEN desc("TEXTURE2D", [MipSlice |-> self.mip_level_base])
        ELSE IF d \in {"D2", "D2Array"} /\ self.multisampled
        THEN desc("TEXTURE2DMSARRAY",
                  [FirstArraySlice |-> self.array_layer_base,
                   ArraySize |-> self.array_layer_count])
        ELSE IF d \in {"D2", "D2Array"}
        THEN desc("TEXTURE2DARRAY",
                  [MipSlice |-> self.mip_level_base,
                   FirstArraySlice |-> self.array_layer_base,
                   ArraySize |-> self.array_layer_count])
        ELSE Panic("Unable to view texture as cube or 3D RTV")

\* the views a texture can be asked for
ViewRequests ==
    [dimension : TextureViewDimensions,
     format : {"Depth24PlusStencil8"},
     range : [base_mip_level : {0}, mip_level_count : MipLevelCounts,
              base_array_layer : ArrayLayerBases,
              array_layer_count : ArrayLayerCounts],
     texture : [sample_count : SampleCounts, mip_level_count : {4},
                size : [depth_or_array_layers : {12}]]]

to_internal ==
    /\ view.desc = <<>>
    /\ view' = [view EXCEPT
                    !.desc = <<TextureViewDescriptor_to_internal(
                                   view.request[1], view.request[1].texture)>>]
    /\ UNCHANGED <<swapchain_vars, device, recording_vars, queue_vars>>

\* a view of one kind is built from the ViewDescriptor
Built(kind, ro_aspects, out) ==
    /\ view.desc # <<>>
    /\ view.out = <<>>
    /\ view' = [view EXCEPT !.kind = kind, !.ro_aspects = ro_aspects, !.out = <<out>>]
    /\ UNCHANGED <<swapchain_vars, device, recording_vars, queue_vars>>

to_srv == Built("SRV", {}, ViewDescriptor_to_srv(view.desc[1]))

to_uav == Built("UAV", {}, ViewDescriptor_to_uav(view.desc[1]))

to_rtv == Built("RTV", {}, ViewDescriptor_to_rtv(view.desc[1]))

to_dsv ==
    \E ro_aspects \in SUBSET FormatAspects :
        Built("DSV", ro_aspects, ViewDescriptor_to_dsv(view.desc[1], ro_aspects))

ViewInit ==
    /\ SwapChainNew
    /\ env = [factory5 |-> FALSE, check_ok |-> FALSE, allow_tearing |-> FALSE]
    /\ overflow_checks = FALSE
    /\ device = DeviceNew
    /\ pass = PassState_new
    /\ list = ListNew
    /\ rec = RecNew
    /\ view \in {[ViewNew EXCEPT !.request = <<r>>] : r \in ViewRequests}
    /\ hresult = HResultNew
    /\ queue = Queue_new

ViewNext ==
    \/ to_internal
    \/ to_srv
    \/ to_uav
    \/ to_rtv
    \/ to_dsv

ViewSpec == ViewInit /\ [][ViewNext]_vars

\* ============================================================ result codes
\* WinError and the HResult conversions.  A WinError(u32) is kept as the pair
\* of its 16-bit halves <<high, low>>; an i32 is the integer itself.
WinError(high, low) == <<high, low>>

ERR_UNEXPECTED == WinError(32768, 65535)      \* 0x8000FFFF

ERR_NOTIMPL == WinError(32768, 16385)         \* 0x80004001

ERR_OUTOFMEMORY == WinError(32775, 14)        \* 0x8007000E

ERR_INVALIDARG == WinError(32775, 87)         \* 0x80070057

\* self as u32: the two's-complement bits of an i32
I32AsU32(self) == WinError((self \div HALF_WORD) % HALF_WORD, self % HALF_WORD)

\* the i32 with the bits of a WinError
U32AsI32(e) == (IF e[1] >= HALF_WORD \div 2 THEN e[1] - HALF_WORD ELSE e[1]) * HALF_WORD + e[2]

\* mutant: every failing code is a lost device
WinError_map_win_error_to_device_error_AlwaysLost(hr_code) == "Lost"

\* WinError::map_win_error_to_device_error
WinError_map_win_error_to_device_error(hr_code) ==
    IF hr_code = ERR_OUTOFMEMORY THEN "OutOfMemory" ELSE "Lost"

Ok(value) == [ok |-> TRUE, value |-> value]

Err(error) == [ok |-> FALSE, value |-> error]

\* <i32 as HResult<()>>::into_result
I32_into_result(self) ==
    IF self >= 0 THEN Ok("()")
    ELSE LET win_error == I32AsU32(self)
         IN  IF win_error = ERR_UNEXPECTED THEN Err("unexpected")
             ELSE IF win_error = ERR_NOTIMPL THEN Err("not implemented")
             ELSE IF win_error = ERR_OUTOFMEMORY THEN Err("out of memory")
             ELSE IF win_error = ERR_INVALIDARG THEN Err("invalid argument")
             ELSE Err(<<"0x{:X}", win_error>>)

\* <i32 as HResult<()>>::into_device_result
I32_into_device_result(self) ==
    IF I32_into_result(self).ok THEN Ok("()")
    ELSE Err(WinError_map_win_error_to_device_error(I32AsU32(self)))

\* <(T, i32) as HResult<T>>::into_device_result
Pair_into_device_result(self) ==
    IF I32_into_device_result(self[2]).ok THEN Ok(self[1])
    ELSE I32_into_device_result(self[2])

\* <runtime::Result<T> as HResult<T>>::into_device_result
Runtime_into_device_result(self) ==
    IF self.ok THEN Ok(self.value)
    ELSE Err(WinError_map_win_error_to_device_error(self.value))

\* the result codes the conversions are driven with
ResultCodes ==
    (0 - 24)..24
    \cup {U32AsI32(e) + d : e \in {ERR_UNEXPECTED, ERR_NOTIMPL, ERR_OUTOFMEMORY,
                                   ERR_INVALIDARG},
                            d \in {0 - 1, 0, 1}}
    \cup {U32AsI32(WinError(32767, 65535)), U32AsI32(WinError(32768, 0)),
          U32AsI32(WinError(7, 14))}

Converted(conversion, ret) ==
    /\ hresult.self # <<>>
    /\ hresult.ret = <<>>
    /\ hresult' = [hresult EXCEPT !.conversion = conversion, !.ret = <<ret>>]
    /\ UNCHANGED <<swapchain_vars, device, recording_vars, view, queue>>

into_result == Converted("i32::into_result", I32_into_result(hresult.self[1]))

into_device_result ==
    Converted("i32::into_device_result", I32_into_device_result(hresult.self[1]))

pair_into_device_result ==
    Converted("(T, i32)::into_device_result",
              Pair_into_device_result(<<"T", hresult.self[1]>>))

\* a runtime::Result is Err only with a failing code
runtime_into_device_result ==
    Converted("runtime::Result::into_device_result",
              Runtime_into_device_result(
                  IF hresult.self[1] >= 0 THEN Ok("T")
                  ELSE Err(I32AsU32(hresult.self[1]))))

ResultInit ==
    /\ SwapChainNew
    /\ env = [factory5 |-> FALSE, check_ok |-> FALSE, allow_tearing |-> FALSE]
    /\ overflow_checks = FALSE
    /\ device = DeviceNew
    /\ pass = PassState_new
    /\ list = ListNew
    /\ rec = RecNew
    /\ view = ViewNew
    /\ hresult \in {[HResultNew EXCEPT !.self = <<c>>] : c \in ResultCodes}
    /\ queue = Queue_new

ResultNext ==
    \/ into_result
    \/ into_device_result
    \/ pair_into_device_result
    \/ runtime_into_device_result

ResultSpec == ResultInit /\ [][ResultNext]_vars

\* ================================================================== queue
\* the most command buffers handed to one submit
MaxBuffers == 2

\* CommandBuffer { raw }: the graphics command lists that were recorded
CommandBuffers == [raw : 1..3]

\* Fence { raw }
Fences == [raw : {1}]

FenceValues == {1, 2}

\* what ID3D12CommandQueue::Signal answers: success codes, E_OUTOFMEMORY and
\* other failures
SignalCodes == {0, 1, U32AsI32(ERR_OUTOFMEMORY), U32AsI32(ERR_INVALIDARG)}

\* GraphicsCommandList::as_list: the same COM object through its base
\* ID3D12CommandList interface
as_list(raw) == [CommandList |-> raw]

\* mutant: the lists of the earlier submit stay in temp_lists
Queue_temp_lists_NoClear(temp_lists, command_buffers) ==
    temp_lists \o [i \in 1..Len(command_buffers) |-> as_list(command_buffers[i].raw)]

\* temp_lists.clear(), then one push per command buffer in argument order
Queue_temp_lists(temp_lists, command_buffers) ==
    [i \in 1..Len(command_buffers) |-> as_list(command_buffers[i].raw)]

\* Queue::submit.  hr: the answer of the native Signal, read only when a fence
\* is supplied
Queue_submit(command_buffers, signal_fence, hr) ==
    LET temp_lists == Queue_temp_lists(queue.temp_lists, command_buffers)
        execute == [call |-> "ExecuteCommandLists", lists |-> temp_lists]
        signal == [call |-> "Signal", fence |-> signal_fence[1][1].raw,
                   value |-> signal_fence[1][2]]
    IN  /\ queue' =
            [temp_lists |-> temp_lists,
             args |-> <<[command_buffers |-> command_buffers,
                         signal_fence |-> signal_fence, hr |-> hr]>>,
             calls |-> IF signal_fence # <<>> THEN <<execute, signal>>
                       ELSE <<execute>>,
             ret |-> IF signal_fence # <<>> /\ ~I32_into_device_result(hr).ok
                     THEN <<I32_into_device_result(hr)>>
                     ELSE <<Ok("()")>>]
        /\ UNCHANGED <<swapchain_vars, device, recording_vars, view, hresult>>

BufferLists == UNION {[1..n -> CommandBuffers] : n \in 0..MaxBuffers}

submit ==
    \/ \E command_buffers \in BufferLists :
          Queue_submit(command_buffers, <<>>, 0)
    \/ \E command_buffers \in BufferLists, fence \in Fences,
          value \in FenceValues, hr \in SignalCodes :
          Queue_submit(command_buffers, <<(<<fence, value>>)>>, hr)

QueueInit ==
    /\ SwapChainNew
    /\ env = [factory5 |-> FALSE, check_ok |-> FALSE, allow_tearing |-> FALSE]
    /\ overflow_checks = FALSE
    /\ device = DeviceNew
    /\ pass = PassState_new
    /\ list = ListNew
    /\ rec = RecNew
    /\ view = ViewNew
    /\ hresult = HResultNew
    /\ queue = Queue_new

QueueNext == submit

QueueSpec == QueueInit /\ [][QueueNext]_vars


\* ================================================================== claims
Configured == swap_chain # <<>>

AcquiredCount == swap_chain[1].acquired_count

ImageCount == Len(swap_chain[1].resources)

\* C1: in every state reachable by configure, acquire_texture, discard_texture,
\* present and unconfigure, 0 <= acquired_count <= resources.length.  (A
\* negative acquired_count here is the wrapped usize 2^64 + acquired_count.)
C1_AcquiredCountWithinImages ==
    Configured => (0 <= AcquiredCount /\ AcquiredCount <= ImageCount)

\* C2: when the frame-latency wait of acquire_texture times out, acquire_texture
\* returns the non-error "not ready" outcome (no texture) and leaves
\* acquired_count unchanged.
C2_TimeoutIsNotReady ==
    (result.op = "acquire_texture" /\ result.hr = "WAIT_TIMEOUT")
        => (/\ result.ret = "Ok(None)"
            /\ Configured
            /\ <<AcquiredCount>> = result.before)

\* C3: a present or discard_texture issued when acquired_count is 0 is detected
\* as a programming error; it never leaves a wrapped-around or otherwise
\* valid-looking acquired_count behind.
C3_UnderflowIsDetected ==
    (result.op \in {"present", "discard_texture"} /\ result.before = <<0>>)
        => (/\ result.ret = "panic"
            /\ Configured
            /\ AcquiredCount = 0)

\* (base + value) mod n for the usize value that r stands for, in the integers
ClaimedIndex(base, r, n) ==
    IF r >= 0 THEN (base + r) % n
    ELSE (base + r + PowMod(2, USIZE_BITS, n)) % n

\* C4: a successful acquire_texture returns
\* resources[(native_current_back_buffer_index + acquired_count) mod image_count],
\* acquired_count being its value before the call, and then acquired_count is
\* that value plus exactly 1.
C4_AcquireIndexAndIncrement ==
    (result.op = "acquire_texture" /\ result.ret = "Ok(Some)")
        => LET before == result.before[1]
           IN  /\ result.index = ClaimedIndex(dxgi[1].back, before, ImageCount)
               /\ result.resource = swap_chain[1].resources[result.index + 1]
               /\ AcquiredCount = before + 1
               /\ ~(before < 0 /\ AcquiredCount >= 0)   \* 2^64 - 1 to 0 is no increment

\* C5: while successful acquire_texture and present strictly alternate 1:1 since
\* configure, acquired_count is 0 after every cycle, every acquire returns the
\* image at index (hw_index + 0) mod N, and no image is handed out while it is
\* still acquired.
C5_AlternationKeepsOneImage ==
    Configured =>
        /\ phase = "idle" => (AcquiredCount = 0 /\ held = {})
        /\ phase = "acquired" =>
               /\ AcquiredCount = 1
               /\ held = {dxgi[1].back % ImageCount}
               /\ ~double_handout
               /\ (result.op = "acquire_texture" /\ result.ret = "Ok(Some)")
                      => (/\ result.before = <<0>>
                          /\ result.index = dxgi[1].back % ImageCount)

\* the third acquire of an alternating run on three images
C5_Witness ==
    /\ Configured
    /\ phase = "acquired"
    /\ ImageCount = 3
    /\ dxgi[1].back = 2
    /\ result.op = "acquire_texture"
    /\ result.index = 2

\* positions of a native call in the calls of the most recent handler
Pos(name) == {i \in DOMAIN calls : calls[i].call = name}

\* C6: configure on an already-configured surface waits for device idle, then
\* releases every old image, then resizes the native swapchain, then fetches
\* the new image handles; no release precedes the idle wait and the resize is
\* not issued while an old image is still owned.
C6_ReconfigureOrder ==
    (result.op = "configure" /\ result.owned > 0) =>
        /\ calls[1].call = "wait_idle"
        /\ Pos("wait_idle") = {1}
        /\ Pos("Resource::destroy") = 2..(result.owned + 1)
        /\ Pos("ResizeBuffers") = {result.owned + 2}
        /\ \A i \in Pos("GetBuffer") : i > result.owned + 2
        /\ result.ret = "Ok" =>
               (/\ Configured
                /\ Cardinality(Pos("GetBuffer")) = ImageCount)

C6_Witness ==
    /\ result.op = "configure"
    /\ result.owned = 3
    /\ result.ret = "Ok"
    /\ Configured
    /\ ImageCount = 2

\* C7: after a successful configure with image count N the swapchain state owns
\* exactly N resources and the i-th owned resource is the native swapchain's
\* buffer i.
C7_ResourcesAreNativeBuffers ==
    Configured =>
        /\ ImageCount = dxgi[1].buffers
        /\ \A i \in 1..ImageCount :
               swap_chain[1].resources[i] = NativeBuffer(i - 1)

\* C8: unconfigure on a configured surface waits for the frame latency, waits
\* for device idle, releases every owned resource and leaves the surface
\* Unconfigured; on an Unconfigured surface it changes nothing.
C8_UnconfigureOrder ==
    [][result'.op = "unconfigure" =>
          /\ swap_chain' = <<>>
          /\ swap_chain = <<>> =>
                 (/\ calls' = <<>>
                  /\ UNCHANGED <<swap_chain, dxgi, env, overflow_checks, phase,
                                 held, double_handout>>)
          /\ swap_chain # <<>> =>
                 LET n == Len(swap_chain[1].resources)
                 IN  /\ Len(calls') = n + 3
                     /\ calls'[1].call = "WaitForSingleObject"
                     /\ calls'[2].call = "wait_idle"
                     /\ \A i \in 1..n :
                            calls'[2 + i] =
                                Call("Resource::destroy", <<swap_chain[1].resources[i]>>)
                     /\ calls'[n + 3].call = "IDXGISwapChain3::destroy"
                     /\ dxgi' = <<>>]_vars

C8_Witness ==
    /\ result.op = "unconfigure"
    /\ result.owned = 3
    /\ swap_chain = <<>>
    /\ Len(calls) = 6

\* C9: the frame-latency wait of acquire_texture has three outcomes: signalled
\* (proceed), timed out (a non-error result) and abandoned / failed / unknown
\* status (SurfaceError::Lost); in the Lost case acquire_texture returns the
\* error and leaves acquired_count unchanged.
C9_WaitOutcomes ==
    (result.op = "acquire_texture" /\ result.hr # "") =>
        /\ result.hr = "WAIT_OBJECT_0" => result.waited = "Ok(true)"
        /\ result.hr = "WAIT_TIMEOUT" => result.waited = "Ok(false)"
        /\ result.hr \in {"WAIT_ABANDONED", "WAIT_FAILED", "WAIT_OTHER"} =>
               /\ result.waited = "Err(Lost)"
               /\ result.ret = "Err(Lost)"
               /\ Configured
               /\ <<AcquiredCount>> = result.before

C9_Witness ==
    /\ result.op = "acquire_texture"
    /\ result.hr = "WAIT_OTHER"
    /\ result.ret = "Err(Lost)"
    /\ result.before = <<2>>

\* C10: present decrements acquired_count by exactly 1 and issues one native
\* present whose interval and flags depend only on the present mode: Immediate
\* gives interval 0 with the tearing-allowed flag only if tearing is supported;
\* Fifo and Mailbox give interval 1 with no tearing flag.
C10_PresentArgs ==
    (result.op = "present" /\ result.ret = "Ok") =>
        /\ Configured
        /\ AcquiredCount = result.before[1] - 1
        /\ AcquiredCount >= 0
        /\ Len(calls) = 1
        /\ calls[1].call = "Present"
        /\ swap_chain[1].present_mode = "Immediate" =>
               calls[1].args =
                   <<0, IF TearingSupported(env) THEN {"DXGI_PRESENT_ALLOW_TEARING"}
                        ELSE {}>>
        /\ swap_chain[1].present_mode \in {"Fifo", "Mailbox"} =>
               calls[1].args = <<1, {}>>

\* --------------------------------------------------- root-binding claims
Dirty(i) == i \in pass.dirty_root_elements

\* the two layouts are distinct objects of the same structure
SameShape(a, b) ==
    /\ a # b /\ a # NullSignature /\ b # NullSignature
    /\ LayoutOf(a).bind_group_infos = LayoutOf(b).bind_group_infos
    /\ LayoutOf(a).shared.total_root_elements = LayoutOf(b).shared.total_root_elements

\* C11: set_pipeline_layout(L) with L another object than the session's current
\* layout leaves every slot of [0, L.total_root_elements) dirty, also when L
\* has the structure of the current layout; with L the current layout itself
\* it sets no dirty bit that was clear.
C11_LayoutChangeDirtiesAll ==
    [][rec'.op = "set_pipeline_layout" =>
          LET L == LayoutOf(rec'.layout).shared
          IN  /\ L.signature # pass.layout.signature =>
                     \A i \in RootSlots :
                         i < L.total_root_elements => i \in pass'.dirty_root_elements
              /\ L.signature = pass.layout.signature =>
                     pass'.dirty_root_elements \subseteq pass.dirty_root_elements]_vars

\* a clean session was handed a second layout of the same shape
C11_Witness ==
    /\ rec.op = "set_pipeline_layout"
    /\ SameShape(rec.from, rec.layout)
    /\ rec.was_dirty = {}
    /\ pass.dirty_root_elements = {0, 1, 2}

\* the native binding of slot i and the root element stored for it
NativeBinding(i) == ElementAt(list.bindings, i)

RootElementOf(i) == ElementAt(pass.root_elements, i)

\* C12: once a layout L is set, whatever set_bind_group calls follow, a
\* flush_before_draw leaves the dirty mask zero and the native binding of
\* every slot below L.total_root_elements equal to root_elements of that slot.
C12_FlushBindsEverySlot ==
    (rec.op = "flush_before_draw" /\ pass.layout.signature # NullSignature) =>
        /\ pass.dirty_root_elements = {}
        /\ \A i \in RootSlots :
               i < pass.layout.total_root_elements => NativeBinding(i) = RootElementOf(i)

\* a flush that found every slot of the layout dirty and bound all three
C12_Witness ==
    /\ rec.op = "flush_before_draw"
    /\ pass.layout.total_root_elements = 3
    /\ rec.was_dirty = {0, 1, 2}
    /\ Len(rec.binds) = 3
    /\ \A i \in 0..2 : NativeBinding(i) # Empty

\* the native binding of slot i is not what root_elements holds for it
Stale(i) == NativeBinding(i) # RootElementOf(i)

\* C13: in every state of a recording session and for every slot i of the
\* 64-slot array, bit i of the dirty mask is set exactly when the native
\* binding of slot i is stale relative to root_elements[i].
C13_DirtyIffStale == \A i \in RootSlots : Dirty(i) <=> Stale(i)

\* C13, as the session keeps it: a slot of the current layout whose dirty bit
\* is clear is bound natively to the root element stored for it.  (A set bit
\* promises nothing: a layout change sets the bits of slots that hold Empty.)
C13_CleanSlotsAreBound ==
    \A i \in RootSlots :
        (i < pass.layout.total_root_elements /\ ~Dirty(i)) => ~Stale(i)

\* one slot of the layout is clean and bound while another is dirty
C13_Witness ==
    \E i, j \in LayoutSlots(pass.layout) :
        /\ ~Dirty(i) /\ NativeBinding(i) # Empty /\ ~Stale(i)
        /\ Dirty(j) /\ Stale(j)

\* the root slots a bind group of this BindGroupInfo owns
GroupSlotRange(info) ==
    info.base_root_index ..
        (info.base_root_index + Cardinality(info.tables)
             + Len(info.dynamic_buffers) - 1)

RECURSIVE SumSlots(_)
\* the root slots a list of bind-group layouts asks for: per layout one for a
\* view table, one for a sampler table, one per dynamic-offset buffer
SumSlots(groups) ==
    IF groups = <<>> THEN 0
    ELSE LET entries == Head(groups)
             has(kinds) == \E i \in 1..Len(entries) : entries[i] \in kinds
             dynamic == Cardinality({i \in 1..Len(entries) : entries[i] \in DynamicEntries})
         IN  (IF has(ViewEntries) THEN 1 ELSE 0)
                 + (IF has(SamplerEntries) THEN 1 ELSE 0)
                 + dynamic + SumSlots(Tail(groups))

\* the combined root-slot demand s of a construction
SlotDemand(args) == (IF args.emulate THEN 1 ELSE 0) + SumSlots(args.groups)

Constructed == device.ret # <<>>

\* C15: a pipeline layout is constructed only when the combined root-slot
\* demand s is at most 64; with s > 64 the construction fails with a capacity
\* error and makes no layout (never a truncated one); every PipelineLayout
\* that exists has total_root_elements <= 64.
C15_CapacityOrError ==
    Constructed =>
        LET s == SlotDemand(device.args[1])
            ret == device.ret[1]
        IN  /\ ret.ret = "Ok" => s <= 64
            /\ s > 64 => ret.ret = "Err(capacity)" /\ ret.layout = <<>>
            /\ ret.layout # <<>> =>
                   /\ ret.layout[1].shared.total_root_elements <= 64
                   /\ ret.layout[1].shared.total_root_elements = s

\* a construction that asked for 65 slots and was refused
C15_Witness ==
    /\ Constructed
    /\ SlotDemand(device.args[1]) = 65
    /\ device.ret[1].ret = "Err(capacity)"
    /\ device.ret[1].layout = <<>>

\* the construction of the two bind-group layouts {one dynamic uniform buffer,
\* one texture} and {one sampler} without the SpecialConstants slot
TwoGroupExample ==
    [emulate |-> FALSE,
     groups |-> << <<"uniform_dynamic", "texture">>, <<"sampler">> >>]

\* C16: the groups take contiguous, disjoint root-slot ranges in group order:
\* base_root_index of a group is the number of slots reserved before it (the
\* leading SpecialConstants slot if the emulation is enabled, plus for every
\* earlier group one per view table, one per sampler table and one per
\* dynamic-offset buffer), and total_root_elements is the sum over all groups;
\* {dynamic uniform buffer + texture}, {sampler} without the emulation gives
\* total 3 and bases 0 and 2.
C16_BaseIndicesAreRunningSums ==
    (Constructed /\ device.ret[1].ret = "Ok") =>
        LET args == device.args[1]
            layout == device.ret[1].layout[1]
            infos == layout.bind_group_infos
            lead == IF args.emulate THEN 1 ELSE 0
        IN  /\ Len(infos) = Len(args.groups)
            /\ \A g \in 1..Len(infos) :
                   infos[g].base_root_index
                       = lead + SumSlots(SubSeq(args.groups, 1, g - 1))
            /\ layout.shared.total_root_elements = lead + SumSlots(args.groups)
            /\ args = TwoGroupExample =>
                   /\ layout.shared.total_root_elements = 3
                   /\ infos[1].base_root_index = 0
                   /\ infos[2].base_root_index = 2

\* the two-group example was constructed
C16_Witness ==
    /\ Constructed
    /\ device.args[1] = TwoGroupExample
    /\ device.ret[1].ret = "Ok"
    /\ device.ret[1].layout[1].shared.total_root_elements = 3
    /\ device.ret[1].layout[1].bind_group_infos[2].base_root_index = 2

\* ------------------------------------------------------------ view claims
ViewBuilt == view.out # <<>>

ViewDesc == view.desc[1]

ViewOut == view.out[1]

\* the outcome is a description of this native view dimension
Yields(view_dimension) ==
    ViewOut.ret = "desc" /\ ViewOut.ViewDimension = view_dimension

\* the view kind cannot show the dimension: no cube UAV or RTV, no 3D DSV
UnsupportedDimension ==
    \/ view.kind \in {"UAV", "RTV"} /\ ViewDesc.dimension \in {"Cube", "CubeArray"}
    \/ view.kind = "DSV" /\ ViewDesc.dimension = "D3"

\* C17: a view of a dimension its kind does not support (Cube or CubeArray
\* for a UAV or RTV, 3D for a DSV) is refused with a construction error,
\* InvalidArgument, handed to the caller; the construction does not panic.
C17_UnsupportedIsError ==
    (ViewBuilt /\ UnsupportedDimension) => ViewOut.ret = "Err(InvalidArgument)"

\* C18: for each of SRV, UAV, RTV and DSV, dimension 2D with multisampled =
\* false and array_layer_base = 0 gives the plain 2D description, whatever
\* array_layer_count is, the unbounded sentinel included.
C18_Plain2DIgnoresCount ==
    (/\ ViewBuilt
     /\ ViewDesc.dimension = "D2"
     /\ ~ViewDesc.multisampled
     /\ ViewDesc.array_layer_base = 0) => Yields("TEXTURE2D")

\* a plain 2D shader-resource view of all remaining layers
C18_Witness ==
    /\ ViewBuilt
    /\ view.kind = "SRV"
    /\ ViewDesc.dimension = "D2"
    /\ ~ViewDesc.multisampled
    /\ ViewDesc.array_layer_base = 0
    /\ ViewDesc.array_layer_count = U32_MAX
    /\ Yields("TEXTURE2D")

MultisampledAtBaseZero ==
    /\ ViewBuilt
    /\ view.kind \in {"SRV", "RTV", "DSV"}
    /\ ViewDesc.multisampled
    /\ ViewDesc.array_layer_base = 0

C20_CubeViews ==
    (ViewBuilt /\ view.kind = "SRV") =>
        LET count == ViewDesc.array_layer_count
        IN  /\ (ViewDesc.dimension = "Cube" /\ ViewDesc.array_layer_base = 0) =>
                   Yields("TEXTURECUBE")
            /\ (\/ ViewDesc.dimension = "Cube" /\ ViewDesc.array_layer_base # 0
                \/ ViewDesc.dimension = "CubeArray") =>
                   /\ Yields("TEXTURECUBEARRAY")
                   /\ ViewOut.Anonymous.First2DArrayFace = ViewDesc.array_layer_base
                   /\ count = U32_MAX => ViewOut.Anonymous.NumCubes = U32_MAX
                   /\ count >= 0 => ViewOut.Anonymous.NumCubes = count \div 6
                   \* (2^32 - 2) / 6
                   /\ count = U32_MAX - 1 => ViewOut.Anonymous.NumCubes = 715827882

\* a cube-array shader-resource view of all remaining layers
C20_Witness ==
    /\ ViewBuilt
    /\ view.kind = "SRV"
    /\ ViewDesc.dimension = "CubeArray"
    /\ ViewDesc.array_layer_count = U32_MAX
    /\ Yields("TEXTURECUBEARRAY")
    /\ ViewOut.Anonymous.NumCubes = U32_MAX

ViewRequest == view.request[1]

\* the count to_internal is to store for a requested Option<NonZeroU32>
StoredCount(requested) == IF requested = <<>> THEN U32_MAX ELSE requested[1]

\* C21: to_internal keeps the unbounded sentinel: an absent mip_level_count or
\* array_layer_count becomes the all-ones value and is not resolved against
\* what the texture has, a count that is given is kept as given, and the
\* native array descriptions carry the stored counts unchanged.
C21_SentinelIsPreserved ==
    view.desc # <<>> =>
        /\ ViewDesc.array_layer_count = StoredCount(ViewRequest.range.array_layer_count)
        /\ ViewDesc.mip_level_count = StoredCount(ViewRequest.range.mip_level_count)
        /\ (ViewBuilt /\ (Yields("TEXTURE2DARRAY") \/ Yields("TEXTURE2DMSARRAY"))) =>
               /\ ViewOut.Anonymous.ArraySize = ViewDesc.array_layer_count
               /\ ViewOut.Anonymous.FirstArraySlice = ViewDesc.array_layer_base
        /\ (ViewBuilt /\ view.kind = "SRV" /\ Yields("TEXTURE2DARRAY")) =>
               ViewOut.Anonymous.MipLevels = ViewDesc.mip_level_count

\* an array view of all remaining layers and mips of a 12-layer texture
C21_Witness ==
    /\ ViewBuilt
    /\ view.kind = "SRV"
    /\ ViewRequest.range.array_layer_count = <<>>
    /\ ViewRequest.range.mip_level_count = <<>>
    /\ ViewRequest.texture.size.depth_or_array_layers = 12
    /\ Yields("TEXTURE2DARRAY")
    /\ ViewOut.Anonymous.ArraySize = U32_MAX
    /\ ViewOut.Anonymous.MipLevels = U32_MAX

\* ------------------------------------------------------ result-code claims
DeviceResultConversions ==
    {"i32::into_device_result", "(T, i32)::into_device_result",
     "runtime::Result::into_device_result"}

\* C22: a failing result code becomes DeviceError::OutOfMemory exactly when it
\* is the out-of-memory code 0x8007000E, and DeviceError::Lost for every other
\* failing code; a result code that is not negative is a success and gives no
\* error.
C22_OutOfMemoryOrLost ==
    (hresult.ret # <<>> /\ hresult.conversion \in DeviceResultConversions) =>
        LET code == hresult.self[1]
            ret == hresult.ret[1]
            \* 0x8007000E as an i32 is 0x8007000E - 2^32
            out_of_memory == code = 0 - 2147024882
        IN  /\ code >= 0 => ret.ok
            /\ code < 0 =>
                   /\ ~ret.ok
                   /\ ret.value = IF out_of_memory THEN "OutOfMemory" ELSE "Lost"

\* the out-of-memory code went through into_device_result
C22_Witness ==
    /\ hresult.ret # <<>>
    /\ hresult.conversion = "i32::into_device_result"
    /\ hresult.self[1] = 0 - 2147024882
    /\ hresult.ret[1] = Err("OutOfMemory")

\* C23: clear() resets the PassState to all-empty whatever it held: all 64
\* root_elements are Empty, the root dirty mask is 0, the vertex-buffer dirty
\* count is 0, the layout has total_root_elements = 0 and no special-constants
\* slot, and the pass kind is Transfer.
C23_ClearResetsEverything ==
    rec.op = "clear" =>
        /\ \A i \in RootSlots : RootElementOf(i) = Empty
        /\ pass.dirty_root_elements = {}
        /\ pass.dirty_vertex_buffers = 0
        /\ pass.layout.total_root_elements = 0
        /\ pass.layout.special_constants_root_index = <<>>
        /\ pass.kind = "Transfer"

\* a cleared PassState that had a layout and dirty bits 0, 1 and 63
C23_Witness ==
    /\ rec.op = "clear"
    /\ rec.from = 3
    /\ rec.was_dirty = {0, 1, 63}
    /\ pass = PassState_new

\* C24: there are as many root-element slots (MAX_ROOT_ELEMENTS = 64) as the
\* dirty mask (u64) has bits: every slot below MAX_ROOT_ELEMENTS has a dirty
\* bit of its own, and setting the bit of a slot sets that bit and no other.
C24_EverySlotHasItsBit ==
    /\ MAX_ROOT_ELEMENTS = 64
    /\ rec.op = "test_dirty_mask" => rec.ret = "ok"
    /\ rec.op = "mark_dirty" =>
           \A slot \in rec.changed :
               /\ slot < MAX_ROOT_ELEMENTS
               /\ pass.dirty_root_elements = rec.was_dirty \cup {slot}

\* the bit of the last slot was set while the bits of slots 0 and 1 were
C24_Witness ==
    /\ rec.op = "mark_dirty"
    /\ rec.changed = {63}
    /\ rec.was_dirty = {0, 1}
    /\ pass.dirty_root_elements = {0, 1, 63}

ArrayAtBaseZero ==
    /\ ViewBuilt
    /\ view.kind \in {"SRV", "RTV", "DSV"}
    /\ ViewDesc.dimension = "D2Array"
    /\ ViewDesc.array_layer_base = 0

C26_ReadOnlyFlagsFollowAspects ==
    (ViewBuilt /\ view.kind = "DSV" /\ ViewOut.ret = "desc") =>
        /\ ("READ_ONLY_DEPTH" \in ViewOut.Flags) = ("DEPTH" \in view.ro_aspects)
        /\ ("READ_ONLY_STENCIL" \in ViewOut.Flags) = ("STENCIL" \in view.ro_aspects)
        /\ ViewOut.Flags \subseteq {"READ_ONLY_DEPTH", "READ_ONLY_STENCIL"}

\* a depth-stencil view with read-only depth and writable stencil
C26_Witness ==
    /\ ViewBuilt
    /\ view.kind = "DSV"
    /\ view.ro_aspects = {"DEPTH"}
    /\ ViewOut.ret = "desc"
    /\ ViewOut.Flags = {"READ_ONLY_DEPTH"}
    /\ ViewDesc.dimension = "D2Array"

\* ------------------------------------------------------------ queue claims
Submitted == queue.ret # <<>>

SubmitArgs == queue.args[1]

\* the native lists of the command buffers of the current call, in argument order
ListsOf(command_buffers) ==
    [i \in 1..Len(command_buffers) |-> [CommandList |-> command_buffers[i].raw]]

\* C27: submit hands the native queue exactly the command lists of the command
\* buffers of the current call, in argument order and with nothing of an
\* earlier submit; it makes no call that waits for the GPU; with a fence it
\* signals that fence with that value as the second call, after
\* ExecuteCommandLists, and without a fence it does not signal; it returns a
\* DeviceError exactly when a fence was supplied and the signal failed, and
\* then the lists are already enqueued.
C27_SubmitEnqueuesThenSignals ==
    Submitted =>
        LET a == SubmitArgs
            fenced == a.signal_fence # <<>>
        IN  /\ queue.calls[1] = [call |-> "ExecuteCommandLists",
                                 lists |-> ListsOf(a.command_buffers)]
            /\ \A i \in 1..Len(queue.calls) :
                  queue.calls[i].call \in {"ExecuteCommandLists", "Signal"}
            /\ Len(queue.calls) = IF fenced THEN 2 ELSE 1
            /\ fenced => queue.calls[2] =
                            [call |-> "Signal",
                             fence |-> a.signal_fence[1][1].raw,
                             value |-> a.signal_fence[1][2]]
            /\ queue.ret[1].ok = ~(fenced /\ a.hr < 0)
            /\ ~queue.ret[1].ok => queue.ret[1].value \in {"OutOfMemory", "Lost"}

\* a submit of two command buffers with a fence whose signal failed
C27_Witness ==
    /\ Submitted
    /\ Len(SubmitArgs.command_buffers) = 2
    /\ SubmitArgs.command_buffers[1].raw = 3
    /\ SubmitArgs.command_buffers[2].raw = 1
    /\ SubmitArgs.signal_fence # <<>>
    /\ ~queue.ret[1].ok
    /\ Len(queue.calls) = 2

\* ------------------------------------------------------ swapchain claims
\* the most recent handler was a configure of a configured surface whose
\* ResizeBuffers failed
ReconfigureFailed ==
    result.op = "configure" /\ result.owned > 0 /\ result.ret # "Ok"

\* C28: when configure on a configured surface fails in the native resize, it
\* returns an error and leaves the surface Unconfigured, every old image
\* already released before the resize and none fetched again; the old
\* swapchain state is not put back, so an acquire_texture, present or
\* discard_texture that follows finds no swapchain (its unwrap panics) and the
\* surface stays Unconfigured.
C28_FailedResizeLeavesUnconfigured ==
    [][/\ (result'.op = "configure" /\ swap_chain # <<>> /\ result'.ret # "Ok") =>
             LET n == Len(swap_chain[1].resources)
             IN  /\ result'.ret = "Err(Other(window is in use))"
                 /\ swap_chain' = <<>>
                 /\ Len(calls') = n + 2
                 /\ \A i \in 1..n :
                        calls'[1 + i] =
                            Call("Resource::destroy", <<swap_chain[1].resources[i]>>)
                 /\ calls'[n + 2].call = "ResizeBuffers"
       /\ (ReconfigureFailed
             /\ result'.op \in {"acquire_texture", "present", "discard_texture"}) =>
             (/\ swap_chain = <<>>
              /\ result'.ret = "panic"
              /\ swap_chain' = <<>>)]_vars

\* a failed resize of a surface that owned three images
C28_Witness ==
    /\ ReconfigureFailed
    /\ result.owned = 3
    /\ result.ret = "Err(Other(window is in use))"
    /\ swap_chain = <<>>
    /\ held = {}

\* C29: the successful acquire_texture calls made in a row, with no present or
\* discard_texture between them (the native back-buffer index then stays the
\* same), return pairwise distinct images as long as they are no more than the
\* image count; the acquire after that returns an image that is still acquired.
C29_ConsecutiveAcquiresAreDistinct ==
    Configured =>
        /\ \A i, j \in 1..Len(run) :
               (i < j /\ j <= ImageCount) => run[i].resource # run[j].resource
        /\ \A j \in 1..Len(run) :
               j > ImageCount =>
                   \E i \in 1..(j - 1) : run[i].resource = run[j].resource
====
